---------------------------- MODULE Spec2Model ----------------------------
(***************************************************************************)
(* A model of beanie's FindQuery (src/beanie/odm/queries/find.py) and of   *)
(* SessionMethods (src/beanie/odm/interfaces/session.py).                  *)
(*                                                                         *)
(* FindQuery objects live in a heap and are named by references (their    *)
(* index), so that "returns a new query" and "changes the receiver" are    *)
(* different things in the model.  Every method is an operator from a      *)
(* world (heap, outbound call log, returned value, raised exception) to a  *)
(* world; one action applies one public method on behalf of the caller.    *)
(***************************************************************************)
EXTENDS Integers, Sequences, FiniteSets, TLC

VARIABLES
    heap,   \* the FindQuery objects the caller holds, by reference 1..Len(heap)
    calls,  \* the calls the caller's last step issued to the motor collection
    last    \* what the caller's last call was and what came back from it

vars == <<heap, calls, last>>

-----------------------------------------------------------------------------
(* Bounds *)

\* FindQuery objects the caller holds at most (the base query included).
MaxQueries == 3
\* The largest number passed to skip() and limit().
MaxNum == 2
\* Documents in the collection, with n = 1..NumDocs.
NumDocs == 5
\* The longest sort string tried.
MaxStrLen == 3
\* The longest list of sort specs tried.
MaxSortArgs == 2

-----------------------------------------------------------------------------
(* Python values.  A value is a record tagged by its type, so that values  *)
(* of different types can be told apart as isinstance() does.  A str is    *)
(* its sequence of characters.                                             *)

None == [t |-> "None"]
PyInt(n) == [t |-> "int", v |-> n]
PyBool(b) == [t |-> "bool", v |-> b]
PyStr(s) == [t |-> "str", v |-> s]
PyTuple(field, direction) == [t |-> "tuple", f |-> field, d |-> direction]
PyList(items) == [t |-> "list", v |-> items]
PyType(name) == [t |-> "type", v |-> name]
PySession(name) == [t |-> "ClientSession", v |-> name]

\* beanie.odm.enums.SortDirection
SortDirection == {"ASCENDING", "DESCENDING"}

-----------------------------------------------------------------------------
(* Worlds *)

World(h, c) == [h |-> h, calls |-> c, ret |-> 0, exc |-> "none"]

Raise(w, exc) == [w EXCEPT !.exc = exc, !.ret = 0]

Return(w, value) == [w EXCEPT !.ret = value]

-----------------------------------------------------------------------------
(* FindQuery: fields and validators *)

\* A validator's outcome: the validated value, or a failure.
Valid(v) == [ok |-> TRUE, v |-> v]
Invalid == [ok |-> FALSE, v |-> None]

\* default_projection_model that stores None as it is given.
default_projection_model_keeps_none(val, values) ==
    IF val # None THEN val.v ELSE "None"

\* @validator('projection_model', pre = True, always = True)
default_projection_model(val, values) ==
    IF val # None THEN val.v ELSE values.document_model

\* FindQuery(document_model = model): the fields' defaults; the default None
\* of projection_model goes through default_projection_model, which runs
\* always.
FindQuery(model) ==
    [ document_model   |-> model,
      find_expressions |-> <<>>,
      projection_model |-> default_projection_model(None, [document_model |-> model]),
      sort_expressions |-> <<>>,
      skip_number      |-> 0,
      limit_number     |-> 0,
      is_single        |-> FALSE,
      cursor           |-> None,
      session          |-> None ]

\* str.startswith(prefix) for a one-character prefix
startswith(val, prefix) == Len(val) > 0 /\ val[1] = prefix

\* str.lstrip("+-")
RECURSIVE lstrip_signs(_)
lstrip_signs(val) ==
    IF startswith(val, "+") \/ startswith(val, "-") THEN lstrip_signs(Tail(val))
    ELSE val

\* validate_sort_items that strips every leading sign of a string.
validate_sort_items_strips_signs(val) ==
    IF val.t = "None" THEN Valid(None)
    ELSE IF val.t = "tuple" THEN Valid(val)
    ELSE IF val.t = "str" THEN
        IF startswith(val.v, "+") THEN Valid(PyTuple(lstrip_signs(val.v), "ASCENDING"))
        ELSE IF startswith(val.v, "-") THEN Valid(PyTuple(lstrip_signs(val.v), "DESCENDING"))
        ELSE Valid(PyTuple(val.v, "ASCENDING"))
    ELSE Invalid

\* @validator('sort_expressions', each_item = True, pre = True)
validate_sort_items(val) ==
    IF val.t = "None" THEN Valid(None)
    ELSE IF val.t = "tuple" THEN Valid(val)
    ELSE IF val.t = "str" THEN
        IF startswith(val.v, "+") THEN Valid(PyTuple(Tail(val.v), "ASCENDING"))
        ELSE IF startswith(val.v, "-") THEN Valid(PyTuple(Tail(val.v), "DESCENDING"))
        ELSE Valid(PyTuple(val.v, "ASCENDING"))
    ELSE Invalid

\* validate_sort_no_none that keeps every item.
validate_sort_no_none_keeps(val) == val

\* @validator('sort_expressions', pre=True)
validate_sort_no_none(val) == SelectSeq(val, LAMBDA item : item # None)

\* The item type of sort_expressions, Tuple[str, SortDirection], checked after
\* the item's pre validator.
validate_sort_item_type(val) ==
    IF val.t = "tuple" /\ val.d \in SortDirection THEN Valid(val) ELSE Invalid

\* conint without its lower bound.
validate_conint_unbounded(val) ==
    IF val.t = "int" THEN Valid(val.v) ELSE Invalid

\* conint(ge = 0)
validate_conint(val) ==
    IF val.t = "int" /\ val.v >= 0 THEN Valid(val.v) ELSE Invalid

\* Validation of the whole sort_expressions list: the list's pre validator
\* first (validate_sort_no_none), then for each item its pre validator
\* (validate_sort_items) and its type.
validate_sort_expressions(val) ==
    LET kept == validate_sort_no_none(val)
        items == [i \in 1..Len(kept) |-> validate_sort_items(kept[i])]
        typed == [i \in 1..Len(kept) |->
                    IF items[i].ok THEN validate_sort_item_type(items[i].v)
                    ELSE Invalid]
    IN  IF \A i \in 1..Len(kept) : typed[i].ok
        THEN Valid([i \in 1..Len(kept) |-> typed[i].v])
        ELSE Invalid

\* Config.validate_assignment: the validation setattr runs for field `key`
\* of object `obj` before it stores the value.
validate_field(obj, key, value) ==
    CASE key = "projection_model" -> Valid(default_projection_model(value, obj))
      [] key = "sort_expressions" -> validate_sort_expressions(value)
      [] key = "skip_number"      -> validate_conint(value)
      [] key = "limit_number"     -> validate_conint(value)
      [] key = "is_single"        -> IF value.t = "bool" THEN Valid(value.v) ELSE Invalid
      [] key = "find_expressions" -> Valid(value)

\* setattr(obj, key, value) on a FindQuery: validate, then store.
setattr(w, obj, key, value) ==
    LET r == validate_field(w.h[obj], key, value)
    IN  IF r.ok THEN [w EXCEPT !.h[obj][key] = r.v]
        ELSE Raise(w, "ValidationError")

\* copy() that makes a new query of the same document model.
copy_defaults(w, self) ==
    [w EXCEPT !.h = Append(w.h, FindQuery(w.h[self].document_model)),
              !.ret = Len(w.h) + 1]

\* BaseModel.copy(): a new object with the fields of `self`.
copy(w, self) == [w EXCEPT !.h = Append(w.h, w.h[self]), !.ret = Len(w.h) + 1]

-----------------------------------------------------------------------------
(* Setters *)

\* _copy_update without the copy: the fields are assigned on `self`.
_copy_update_in_place(w, self, kwargs) ==
    LET RECURSIVE assign(_, _)
        assign(wi, i) ==
            IF i > Len(kwargs) \/ wi.exc # "none" THEN wi
            ELSE assign(setattr(wi, self, kwargs[i][1], kwargs[i][2]), i + 1)
        wf == assign(w, 1)
    IN  IF wf.exc = "none" THEN Return(wf, self) ELSE wf

\* FindQuery._copy_update(**kwargs); kwargs is the sequence of its
\* <<key, value>> pairs in the order given.
_copy_update(w, self, kwargs) ==
    LET w0 == copy(w, self)
        res == w0.ret
        RECURSIVE assign(_, _)
        assign(wi, i) ==
            IF i > Len(kwargs) \/ wi.exc # "none" THEN wi
            ELSE assign(setattr(wi, res, kwargs[i][1], kwargs[i][2]), i + 1)
        wf == assign(w0, 1)
    IN  IF wf.exc = "none" THEN Return(wf, res) ELSE wf

limit(w, self, limit_number) ==
    _copy_update(w, self, << <<"limit_number", limit_number>> >>)

skip(w, self, skip_number) ==
    _copy_update(w, self, << <<"skip_number", skip_number>> >>)

project(w, self, projection_model) ==
    _copy_update(w, self, << <<"projection_model", projection_model>> >>)

\* one() that leaves limit_number alone.
one_keeps_limit(w, self, is_single) ==
    _copy_update(w, self, << <<"is_single", is_single>> >>)

\* one() that fetches the document at once.
one_eager(w, self, is_single) ==
    LET w1 == _copy_update(w, self, << <<"is_single", is_single>>,
                                       <<"limit_number", PyInt(1)>> >>)
    IN  IF w1.exc = "none"
        THEN [w1 EXCEPT !.calls = Append(w1.calls,
                [op |-> "find_one", args |-> <<>>, self |-> w1.ret])]
        ELSE w1

one(w, self, is_single) ==
    _copy_update(w, self, << <<"is_single", is_single>>,
                             <<"limit_number", PyInt(1)>> >>)

\* set_session() that stores the session in the receiver.
set_session_in_place(w, self, session) ==
    [w EXCEPT !.h[self].session = session, !.ret = self]

\* SessionMethods.set_session: copy(update = {'session': session}), which
\* stores the value without validation.
set_session(w, self, session) ==
    LET w0 == copy(w, self)
    IN  [w0 EXCEPT !.h[w0.ret].session = session]

\* sort() that adds the new keys after the existing ones.
RECURSIVE sort_appends(_, _, _)
sort_appends(w, self, args) ==
    IF Len(args) = 0 THEN Raise(w, "ValueError")
    ELSE IF Len(args) = 1 /\ args[1].t = "list" THEN sort_appends(w, self, args[1].v)
    ELSE _copy_update(w, self,
            << <<"sort_expressions", w.h[self].sort_expressions \o args>> >>)

\* sort() that takes a call without arguments as a call that adds nothing.
RECURSIVE sort_empty_ok(_, _, _)
sort_empty_ok(w, self, args) ==
    IF Len(args) = 1 /\ args[1].t = "list" THEN sort_empty_ok(w, self, args[1].v)
    ELSE _copy_update(w, self,
            << <<"sort_expressions", args \o w.h[self].sort_expressions>> >>)

\* sort() that does not unpack a list given as the sole argument.
sort_no_list(w, self, args) ==
    IF Len(args) = 0 THEN Raise(w, "ValueError")
    ELSE _copy_update(w, self,
            << <<"sort_expressions", args \o w.h[self].sort_expressions>> >>)

RECURSIVE sort(_, _, _)
sort(w, self, args) ==
    IF Len(args) = 0 THEN Raise(w, "ValueError")
    ELSE IF Len(args) = 1 /\ args[1].t = "list" THEN sort(w, self, args[1].v)
    ELSE _copy_update(w, self,
            << <<"sort_expressions", args \o w.h[self].sort_expressions>> >>)

\* The keyword arguments of find(), each None when not given.
NoKwargs ==
    [ skip |-> None, limit |-> None, sort |-> None, one |-> None,
      projection_model |-> None, session |-> None ]

\* The lines of find() that apply a keyword argument, each to the result
\* so far and only when its argument is given.
find_skip(w, skip_number) ==
    IF w.exc = "none" /\ skip_number # None THEN skip(w, w.ret, skip_number) ELSE w

find_limit(w, limit_number) ==
    IF w.exc = "none" /\ limit_number # None THEN limit(w, w.ret, limit_number) ELSE w

find_sort(w, sort_spec) ==
    IF w.exc = "none" /\ sort_spec # None THEN sort(w, w.ret, <<sort_spec>>) ELSE w

find_one_flag(w, is_single) ==
    IF w.exc = "none" /\ is_single # None THEN one(w, w.ret, is_single) ELSE w

find_project(w, projection_model) ==
    IF w.exc = "none" /\ projection_model # None
    THEN project(w, w.ret, projection_model) ELSE w

find_session(w, session) ==
    IF w.exc = "none" /\ session # None THEN set_session(w, w.ret, session) ELSE w

\* The keyword arguments of find() with `one` applied before `limit`.
find_kwargs_one_first(w, kw) ==
    find_session(
        find_project(
            find_sort(
                find_limit(
                    find_one_flag(
                        find_skip(w, kw.skip),
                        kw.one),
                    kw.limit),
                kw.sort),
            kw.projection_model),
        kw.session)

\* The keyword arguments of find() applied in its order.
find_kwargs(w, kw) ==
    find_session(
        find_project(
            find_one_flag(
                find_sort(
                    find_limit(
                        find_skip(w, kw.skip),
                        kw.limit),
                    kw.sort),
                kw.one),
            kw.projection_model),
        kw.session)

\* find() that puts the new expressions before the existing ones.
find_prepends(w, self, args, kw) ==
    find_kwargs(
        _copy_update(w, self,
            << <<"find_expressions", args \o w.h[self].find_expressions>> >>),
        kw)

find(w, self, args, kw) ==
    find_kwargs(
        _copy_update(w, self,
            << <<"find_expressions", w.h[self].find_expressions \o args>> >>),
        kw)

\* find_one() that leaves a query alone when the caller gave `one`.
find_one_unless_given(w, self, args, kw) ==
    LET w1 == find(w, self, args, kw)
    IN  IF w1.exc = "none" /\ kw.one.t = "None" THEN one(w1, w1.ret, PyBool(TRUE))
        ELSE w1

find_one(w, self, args, kw) ==
    LET w1 == find(w, self, args, kw)
    IN  IF w1.exc = "none" THEN one(w1, w1.ret, PyBool(TRUE)) ELSE w1

-----------------------------------------------------------------------------
(* The collaborators the executor calls: filter expressions, projections,  *)
(* the motor collection and the parsing of a raw document.                 *)

\* The document models: the Document and a projection of it, by their fields.
ModelFields(model) ==
    IF model = "Doc" THEN {"id", "n", "a", "b"} ELSE {"id", "n"}

\* The collection's documents, in natural order.
Docs == [i \in 1..NumDocs |-> [id |-> i, n |-> i, a |-> i % 2, b |-> i % 3]]

\* Find expressions: operators of beanie.odm.operators.find and raw mappings.
GT(field, value) == [t |-> "GT", f |-> field, v |-> value]
Eq(field, value) == [t |-> "Eq", f |-> field, v |-> value]
Mapping(pairs) == [t |-> "dict", v |-> pairs]
And(expressions) == [t |-> "And", v |-> expressions]

\* Whether a document satisfies a find expression or a filter.
RECURSIVE Matches(_, _)
Matches(doc, e) ==
    CASE e.t = "GT"   -> doc[e.f] > e.v
      [] e.t = "Eq"   -> doc[e.f] = e.v
      [] e.t = "dict" -> \A i \in 1..Len(e.v) : doc[e.v[i][1]] = e.v[i][2]
      [] e.t = "And"  -> \A i \in 1..Len(e.v) : Matches(doc, e.v[i])

\* The value of the field a sort key names (a str: its characters).
SortField(doc, field) ==
    IF field = <<"n">> THEN doc.n
    ELSE IF field = <<"a">> THEN doc.a
    ELSE IF field = <<"b">> THEN doc.b
    ELSE 0

\* Whether d1 comes before d2 under the sort keys from position i on; ties
\* fall back to natural order.
RECURSIVE Before(_, _, _, _)
Before(d1, d2, keys, i) ==
    IF i > Len(keys) THEN d1.id < d2.id
    ELSE LET x == SortField(d1, keys[i].f)
             y == SortField(d2, keys[i].f)
         IN  IF x = y THEN Before(d1, d2, keys, i + 1)
             ELSE IF keys[i].d = "ASCENDING" THEN x < y ELSE x > y

\* collection.find(filter, projection, session, limit, skip, sort), drained.
motor_find(params) ==
    LET matching == SelectSeq(Docs, LAMBDA d : Matches(d, params.filter))
        sorted == SortSeq(matching, LAMBDA d1, d2 : Before(d1, d2, params.sort, 1))
        skipped == SubSeq(sorted, params.skip + 1, Len(sorted))
        limited == IF params.limit = 0 \/ params.limit > Len(skipped) THEN skipped
                   ELSE SubSeq(skipped, 1, params.limit)
    IN  [i \in 1..Len(limited) |->
            [f \in params.projection |-> limited[i][f]]]

\* collection.find_one(...): the first document of the same find, or None.
motor_find_one(params) ==
    LET found == motor_find(params)
    IN  IF Len(found) = 0 THEN None ELSE [t |-> "dict", v |-> found[1]]

\* collection.count_documents(filter)
motor_count_documents(filter) ==
    Cardinality({i \in 1..NumDocs : Matches(Docs[i], filter)})

\* projection_model.parse_obj(document)
parse_obj(model, document) == [t |-> "model", type |-> model, v |-> document]

\* beanie.odm.utils.projection.get_projection
get_projection(model) == ModelFields(model)

\* A call issued to the collection by the query object `self`.
Call(w, self, op, args) ==
    [w EXCEPT !.calls = Append(w.calls, [op |-> op, args |-> args, self |-> self])]

-----------------------------------------------------------------------------
(* Getters and queries *)

get_projection_model(q) == q.projection_model

get_filter_query(q) ==
    IF Len(q.find_expressions) > 0 THEN And(q.find_expressions)
    ELSE Mapping(<<>>)

\* _find_query_params that passes the stored limit whatever is_single is.
_find_query_params_stored_limit(q) ==
    [ filter     |-> get_filter_query(q),
      projection |-> get_projection(q.projection_model),
      session    |-> q.session,
      limit      |-> q.limit_number,
      skip       |-> q.skip_number,
      sort       |-> q.sort_expressions ]

_find_query_params(q) ==
    [ filter     |-> get_filter_query(q),
      projection |-> get_projection(q.projection_model),
      session    |-> q.session,
      limit      |-> IF ~q.is_single THEN q.limit_number ELSE 1,
      skip       |-> q.skip_number,
      sort       |-> q.sort_expressions ]

\* The motor_cursor property: the cursor of one find call.
motor_cursor(w, self) ==
    LET params == _find_query_params(w.h[self])
    IN  Return(Call(w, self, "find", params),
               [t |-> "cursor", v |-> motor_find(params)])

\* BaseCursorQuery.to_list, a coroutine function: what its body does when the
\* coroutine runs.
to_list(w, self) ==
    LET w1 == motor_cursor(w, self)
        motor_list == w1.ret.v
        projection == get_projection_model(w1.h[self])
    IN  Return(w1, PyList([i \in 1..Len(motor_list) |->
                              parse_obj(projection, motor_list[i])]))

\* __await__ that raises when no document is found.
__await__not_found(w, self) ==
    LET q == w.h[self]
        params == _find_query_params(q)
    IN  IF q.is_single THEN
            LET w1 == Call(w, self, "find_one", params)
                document == motor_find_one(params)
            IN  IF document = None THEN Raise(w1, "DocumentNotFound")
                ELSE Return(w1, parse_obj(q.projection_model, document.v))
        ELSE Return(w, [t |-> "coroutine_wrapper", v |-> "to_list"])

\* FindQuery.__await__, a generator function (its single branch has a
\* `yield from`): what `await query` resolves to.  In the other branch the
\* generator returns, as its value, the iterator to_list().__await__() of a
\* coroutine that is created and never run.
__await__(w, self) ==
    LET q == w.h[self]
        params == _find_query_params(q)
    IN  IF q.is_single THEN
            LET w1 == Call(w, self, "find_one", params)
                document == motor_find_one(params)
            IN  IF document = None THEN Return(w1, None)
                ELSE Return(w1, parse_obj(q.projection_model, document.v))
        ELSE Return(w, [t |-> "coroutine_wrapper", v |-> "to_list"])

\* count() of the paginated window.
count_window(w, self) ==
    LET filter == get_filter_query(w.h[self])
    IN  Return(Call(w, self, "count_documents", filter),
               PyInt(Len(motor_find(_find_query_params(w.h[self])))))

count(w, self) ==
    LET filter == get_filter_query(w.h[self])
    IN  Return(Call(w, self, "count_documents", filter),
               PyInt(motor_count_documents(filter)))

-----------------------------------------------------------------------------
(* The caller: the arguments it passes *)

LimitArgs == {PyInt(-1), PyInt(MaxNum)}
SkipArgs == {PyInt(-1), PyInt(1)}
ProjectArgs == {None, PyType("Proj")}
OneArgs == {PyBool(TRUE), PyBool(FALSE)}
SessionArgs == {None, PySession("s1")}

\* Argument lists of sort(): none, strings, a tuple, None items, a list as
\* the sole argument, and items of a wrong type.
SortArgs ==
    { <<>>,
      <<PyStr(<<"a">>)>>,
      <<PyStr(<<"b">>)>>,
      <<PyStr(<<"-", "n">>)>>,
      <<PyStr(<<"+", "b">>), None, PyTuple(<<"a">>, "DESCENDING")>>,
      <<None>>,
      <<PyList(<<PyStr(<<"a">>), PyStr(<<"-", "b">>)>>)>>,
      <<PyList(<<>>)>>,
      <<PyInt(5)>>,
      <<PyTuple(<<"a">>, "SIDEWAYS")>> }

\* Calls of find_one(): <<positional arguments, keyword arguments>>.
FindOneCalls ==
    { <<<<Eq("n", 999)>>, NoKwargs>>,
      <<<<GT("n", 1)>>,
        [NoKwargs EXCEPT !.sort = PyStr(<<"-", "n">>), !.skip = PyInt(1),
                         !.limit = PyInt(MaxNum)]>>,
      <<<<>>, [NoKwargs EXCEPT !.limit = PyInt(MaxNum), !.one = PyBool(FALSE)]>> }

\* Calls of find(): those, and more.
FindCalls ==
    FindOneCalls \cup
    { <<<<GT("n", 1)>>, NoKwargs>>,
      <<<<Mapping(<< <<"a", 1>> >>), GT("n", 1)>>, NoKwargs>>,
      <<<<>>, [NoKwargs EXCEPT !.limit = PyInt(MaxNum), !.one = PyBool(TRUE),
                               !.projection_model = PyType("Proj"),
                               !.session = PySession("s1")]>>,
      <<<<GT("n", 1)>>, [NoKwargs EXCEPT !.skip = PyInt(-1)]>>,
      <<<<>>, [NoKwargs EXCEPT !.skip = PyInt(1), !.limit = PyInt(-1)]>> }

TransformOps ==
    {"limit", "skip", "project", "one", "set_session", "sort", "find", "find_one"}

ExecuteOps == {"await", "motor_cursor", "count"}

-----------------------------------------------------------------------------
(* The caller's steps *)

\* The caller keeps the objects it held and the object a transform returned;
\* the temporaries of the call are dropped.
Kept(w) == SubSeq(w.h, 1, Len(heap))

Returned(w) ==
    IF w.exc # "none" THEN 0
    ELSE IF w.ret > Len(heap) THEN Len(heap) + 1
    ELSE w.ret

\* A transform `op` called on `self` with `args` and `kw` ended as world `w`.
Build(op, self, args, kw, w) ==
    /\ heap' = IF w.exc = "none" /\ w.ret > Len(heap)
               THEN Append(Kept(w), w.h[w.ret]) ELSE Kept(w)
    /\ calls' = w.calls
    /\ last' = [op |-> op, self |-> self, args |-> args, kw |-> kw,
                exc |-> w.exc, ret |-> Returned(w), value |-> None]

\* An execution `op` of `self` ended as world `w`.
Execute(op, self, w) ==
    /\ heap' = Kept(w)
    /\ calls' = w.calls
    /\ last' = [op |-> op, self |-> self, args |-> <<>>, kw |-> NoKwargs,
                exc |-> w.exc, ret |-> 0, value |-> w.ret]

\* The world a step starts in: the caller's objects, no call issued yet.
Now == World(heap, <<>>)

CanBuild == Len(heap) < MaxQueries

Limit ==
    /\ CanBuild
    /\ \E self \in DOMAIN heap, n \in LimitArgs :
          Build("limit", self, <<n>>, NoKwargs, limit(Now, self, n))

Skip ==
    /\ CanBuild
    /\ \E self \in DOMAIN heap, n \in SkipArgs :
          Build("skip", self, <<n>>, NoKwargs, skip(Now, self, n))

Project ==
    /\ CanBuild
    /\ \E self \in DOMAIN heap, m \in ProjectArgs :
          Build("project", self, <<m>>, NoKwargs, project(Now, self, m))

One ==
    /\ CanBuild
    /\ \E self \in DOMAIN heap, flag \in OneArgs :
          Build("one", self, <<flag>>, NoKwargs, one(Now, self, flag))

SetSession ==
    /\ CanBuild
    /\ \E self \in DOMAIN heap, s \in SessionArgs :
          Build("set_session", self, <<s>>, NoKwargs, set_session(Now, self, s))

Sort ==
    /\ CanBuild
    /\ \E self \in DOMAIN heap, args \in SortArgs :
          Build("sort", self, args, NoKwargs, sort(Now, self, args))

Find ==
    /\ CanBuild
    /\ \E self \in DOMAIN heap, c \in FindCalls :
          Build("find", self, c[1], c[2], find(Now, self, c[1], c[2]))

FindOne ==
    /\ CanBuild
    /\ \E self \in DOMAIN heap, c \in FindOneCalls :
          Build("find_one", self, c[1], c[2], find_one(Now, self, c[1], c[2]))

Await ==
    \E self \in DOMAIN heap : Execute("await", self, __await__(Now, self))

MotorCursor ==
    \E self \in DOMAIN heap : Execute("motor_cursor", self, motor_cursor(Now, self))

Count ==
    \E self \in DOMAIN heap : Execute("count", self, count(Now, self))

Init ==
    /\ heap = <<FindQuery("Doc")>>
    /\ calls = <<>>
    /\ last = [op |-> "init", self |-> 0, args |-> <<>>, kw |-> NoKwargs,
               exc |-> "none", ret |-> 1, value |-> None]

Next ==
    \/ Limit \/ Skip \/ Project \/ One \/ SetSession \/ Sort \/ Find \/ FindOne
    \/ Await \/ MotorCursor \/ Count

Spec == Init /\ [][Next]_vars

-----------------------------------------------------------------------------
(* sort() alone, on many argument lists: the caller holds a query without *)
(* sort keys and one with a key, and calls sort() once on either.         *)

\* The strings of at most MaxStrLen characters over signs and a letter.
SortStrings == UNION {[1..k -> {"+", "-", "a"}] : k \in 0..MaxStrLen}

\* The items of the lists of sort specs.
SortListItems ==
    { PyStr(<<"a">>), PyStr(<<"-", "b">>), None,
      PyTuple(<<"a">>, "DESCENDING"), PyInt(5) }

\* The lists of at most MaxSortArgs sort specs.
SortLists == UNION {[1..k -> SortListItems] : k \in 0..MaxSortArgs}

\* The argument lists of sort(): one string, one pair, the specs of a list
\* one by one, and the list as the sole argument.
SortInputs ==
    {<<PyStr(str)>> : str \in SortStrings}
    \cup {<<PyTuple(<<"a">>, d)>> : d \in SortDirection}
    \cup {<<PyTuple(<<"+", "a">>, "ASCENDING")>>}
    \cup SortLists
    \cup {<<PyList(L)>> : L \in SortLists}

\* The query FindQuery(document_model = Doc).sort("-n").
SortedQuery ==
    LET w == sort(World(<<FindQuery("Doc")>>, <<>>), 1, <<PyStr(<<"-", "n">>)>>)
    IN  w.h[w.ret]

InitSort ==
    /\ heap = <<FindQuery("Doc"), SortedQuery>>
    /\ calls = <<>>
    /\ \E self \in 1..2, args \in SortInputs :
          last = [op |-> "input", self |-> self, args |-> args, kw |-> NoKwargs,
                  exc |-> "none", ret |-> 0, value |-> None]

SortGiven ==
    /\ last.op = "input"
    /\ Build("sort", last.self, last.args, NoKwargs, sort(Now, last.self, last.args))

NextSort == SortGiven

SpecSort == InitSort /\ [][NextSort]_vars

-----------------------------------------------------------------------------
(* Properties *)

\* The receiver and the result of the last call, when it was a transform
\* that returned.
Built == last.op \in TransformOps /\ last.exc = "none"
Receiver == heap[last.self]
Result == heap[last.ret]

\* C1: no transform, returning or raising, changes a field of any query
\* object that existed before the call, the receiver included; so each of
\* them executes with the parameters it had.
C1_Immutability ==
    [][last'.op \in TransformOps =>
        \A i \in DOMAIN heap :
            /\ i \in DOMAIN heap'
            /\ heap'[i] = heap[i]
            /\ _find_query_params(heap'[i]) = _find_query_params(heap[i])]_vars

\* A transform returned a query that differs from its receiver, itself the
\* result of an earlier transform.
C1_Witness ==
    /\ Built
    /\ last.self > 1
    /\ last.ret # last.self
    /\ Result # Receiver

\* The sort specs a call of sort() gives: those of the list, when a list is
\* the sole argument.
SortSpecs(args) ==
    IF Len(args) = 1 /\ args[1].t = "list" THEN args[1].v ELSE args

\* C2: sort(*A) returns a query whose sort_expressions are the normalized
\* keys of A, in the order given, followed by the receiver's
\* sort_expressions in their order; sort("a").sort("b") gives
\* [(b, ascending), (a, ascending)].
C2_SortPrepends ==
    last.op = "sort" /\ last.exc = "none" =>
        LET given == validate_sort_expressions(SortSpecs(last.args))
        IN  /\ given.ok
            /\ Result.sort_expressions = given.v \o Receiver.sort_expressions
            /\ ( /\ last.args = <<PyStr(<<"b">>)>>
                 /\ Receiver.sort_expressions = <<PyTuple(<<"a">>, "ASCENDING")>>
                 => Result.sort_expressions = << PyTuple(<<"b">>, "ASCENDING"),
                                                 PyTuple(<<"a">>, "ASCENDING") >> )

\* sort("b") returned on a query made by sort("a").
C2_Witness ==
    /\ last.op = "sort" /\ last.exc = "none"
    /\ last.args = <<PyStr(<<"b">>)>>
    /\ Receiver.sort_expressions = <<PyTuple(<<"a">>, "ASCENDING")>>

\* C3: every find and find_one call of a query with is_single set passes
\* limit 1, whatever its limit_number; of a query without, its limit_number.
C3_OneForcesLimit ==
    \A i \in 1..Len(calls) :
        calls[i].op \in {"find", "find_one"} =>
            LET q == heap[calls[i].self]
            IN  calls[i].args.limit = IF q.is_single THEN 1 ELSE q.limit_number

\* A query made by one() and then limit(MaxNum) was executed.
C3_Witness ==
    /\ Len(calls) = 1
    /\ calls[1].op \in {"find", "find_one"}
    /\ heap[calls[1].self].is_single
    /\ heap[calls[1].self].limit_number = MaxNum
    /\ calls[1].args.limit = 1

\* C4: limit(n) stores n and keeps is_single; one(flag) stores flag and
\* limit_number 1, for both flags; find() does the same for its limit and
\* one arguments, one after limit; find_one() ends with one(); every other
\* transform keeps both fields.
C4_LastCallWins ==
    Built =>
        LET old == Receiver
            new == Result
            kept == /\ new.limit_number = old.limit_number
                    /\ new.is_single = old.is_single
        IN  CASE last.op = "limit" ->
                    /\ new.limit_number = last.args[1].v
                    /\ new.is_single = old.is_single
              [] last.op = "one" ->
                    /\ new.is_single = last.args[1].v
                    /\ new.limit_number = 1
              [] last.op = "find" ->
                    IF last.kw.one # None
                    THEN new.is_single = last.kw.one.v /\ new.limit_number = 1
                    ELSE /\ new.is_single = old.is_single
                         /\ new.limit_number = IF last.kw.limit # None
                                               THEN last.kw.limit.v
                                               ELSE old.limit_number
              [] last.op = "find_one" ->
                    new.is_single /\ new.limit_number = 1
              [] OTHER -> kept

\* limit(MaxNum) returned on a query made by one(): is_single with a stored
\* limit other than 1.
C4_Witness ==
    /\ Built
    /\ last.op = "limit"
    /\ Receiver.is_single /\ Receiver.limit_number = 1
    /\ Result.is_single /\ Result.limit_number = MaxNum

\* C5: find(*P) returns a query whose find_expressions are the receiver's
\* followed by P, and whose filter is the And of exactly that sequence, or
\* the empty mapping, which every document matches, when it is empty.
C5_FilterAppends ==
    last.op = "find" /\ last.exc = "none" =>
        LET both == Receiver.find_expressions \o last.args
        IN  /\ Result.find_expressions = both
            /\ get_filter_query(Result) =
                  IF both = <<>> THEN [t |-> "dict", v |-> <<>>]
                  ELSE [t |-> "And", v |-> both]
            /\ both = <<>> => motor_count_documents(get_filter_query(Result)) = NumDocs

\* find(P2) returned on a query that already had another expression P1.
C5_Witness ==
    /\ last.op = "find" /\ last.exc = "none"
    /\ Len(Receiver.find_expressions) > 0
    /\ Len(last.args) > 0
    /\ Receiver.find_expressions[1] # last.args[1]

\* The query the last call was made on.
Executed == heap[last.self]

\* The documents that match every find expression of q, in natural order.
Matching(q) ==
    SelectSeq(Docs, LAMBDA d :
        \A k \in 1..Len(q.find_expressions) : Matches(d, q.find_expressions[k]))

\* The records a many-mode query stands for: the matching documents in the
\* order of its sort keys, without the first skip_number, at most
\* limit_number of them (0: all), each parsed into projection_model.
Records(q) ==
    LET sorted == SortSeq(Matching(q),
                          LAMBDA d1, d2 : Before(d1, d2, q.sort_expressions, 1))
        rest == SubSeq(sorted, q.skip_number + 1, Len(sorted))
        n == IF q.limit_number = 0 \/ q.limit_number > Len(rest)
             THEN Len(rest) ELSE q.limit_number
    IN  [i \in 1..n |->
            parse_obj(q.projection_model,
                      [f \in ModelFields(q.projection_model) |-> rest[i][f]])]

\* C6: awaiting a query whose is_single is false resolves to the list of
\* its records: matching, sorted, skipped, limited; with n = 1..5 in the
\* collection, the query with n > 1, sort "-n", skip 1 and limit 2 resolves
\* to the records n = 3, n = 2.
C6_AwaitMany ==
    last.op = "await" /\ ~Executed.is_single =>
        /\ last.exc = "none"
        /\ last.value = PyList(Records(Executed))
        /\ ( /\ NumDocs = 5
             /\ Executed.find_expressions = <<GT("n", 1)>>
             /\ Executed.sort_expressions = <<PyTuple(<<"n">>, "DESCENDING")>>
             /\ Executed.skip_number = 1
             /\ Executed.limit_number = 2
             => /\ last.value.t = "list"
                /\ [i \in 1..Len(last.value.v) |-> last.value.v[i].v.n] = <<3, 2>> )

\* C7: awaiting a query whose is_single is true issues find_one and resolves,
\* without raising, to None when that call returns no document, and else to
\* the document it returns parsed into projection_model; never to a list.
C7_AwaitSingle ==
    last.op = "await" /\ Executed.is_single =>
        /\ last.exc = "none"
        /\ Len(calls) = 1 /\ calls[1].op = "find_one"
        /\ last.value.t # "list"
        /\ LET found == motor_find(calls[1].args)
           IN  IF Len(found) = 0 THEN last.value = None
               ELSE last.value =
                      [t |-> "model", type |-> Executed.projection_model,
                       v |-> found[1]]

\* A single-mode query that no document matches was awaited.
C7_Witness ==
    /\ last.op = "await" /\ Executed.is_single
    /\ Len(Matching(Executed)) = 0
    /\ last.value = None

\* C8: count() passes the filter alone to count_documents and returns the
\* number of all matching documents, the same for every query with these
\* find expressions, whatever its skip, limit, sort, projection and mode.
C8_CountIgnoresPagination ==
    last.op = "count" =>
        /\ calls = << [op |-> "count_documents",
                       args |-> get_filter_query(Executed),
                       self |-> last.self] >>
        /\ last.value = PyInt(Len(Matching(Executed)))
        /\ \A j \in DOMAIN heap :
              heap[j].find_expressions = Executed.find_expressions =>
                  count(Now, j).ret = last.value

\* count() returned more than the limit of a query with a skip and a limit,
\* or more than one for a single-mode query.
C8_Witness ==
    /\ last.op = "count"
    /\ \/ /\ Executed.skip_number > 0
          /\ Executed.limit_number > 0
          /\ last.value.v > Executed.limit_number
       \/ Executed.is_single /\ last.value.v > 1

\* C9: a transform issues no call to the collection.
C9_BuildersAreLazy ==
    last.op \in TransformOps => calls = <<>>

\* A chain of two transforms that ends with one() or find_one() returned.
C9_Witness ==
    /\ Built
    /\ last.op \in {"one", "find_one"}
    /\ last.self > 1
    /\ calls = <<>>

\* C10: every execution issues exactly one call: an await find_one in single
\* mode and find in many mode, motor_cursor find, count count_documents.
C10_OneCallPerExecution ==
    /\ last.op = "await" =>
          /\ Len(calls) = 1
          /\ calls[1].op = IF Executed.is_single THEN "find_one" ELSE "find"
    /\ last.op = "motor_cursor" => Len(calls) = 1 /\ calls[1].op = "find"
    /\ last.op = "count" => Len(calls) = 1 /\ calls[1].op = "count_documents"

\* C11: sort() without arguments raises the error of an empty sort call
\* (ValueError) on any query: nothing is returned, the caller holds the
\* objects it held, unchanged, and no call is issued.
C11_EmptySortRaises ==
    [][last'.op = "sort" /\ last'.args = <<>> =>
        /\ last'.exc = "ValueError"
        /\ last'.ret = 0
        /\ heap' = heap
        /\ calls' = <<>>]_vars

\* sort() raised on a query that already has sort keys.
C11_Witness ==
    /\ last.op = "sort" /\ last.args = <<>>
    /\ last.exc = "ValueError"
    /\ Len(heap[last.self].sort_expressions) > 0

\* C12: a sort string is stored as the pair of its field and direction:
\* "+x" and "x" as (x, ascending), "-x" as (x, descending), where x is the
\* string without that one leading sign; a pair is stored as it is given.
C12_SortStringParsing ==
    last.op = "sort" /\ Len(last.args) = 1 =>
        LET spec == last.args[1]
            signed == spec.t = "str" /\ Len(spec.v) > 0 /\ spec.v[1] \in {"+", "-"}
        IN  /\ spec.t = "str" =>
                /\ last.exc = "none"
                /\ Len(Result.sort_expressions) = Len(Receiver.sort_expressions) + 1
                /\ Result.sort_expressions[1] =
                      [ t |-> "tuple",
                        f |-> IF signed THEN SubSeq(spec.v, 2, Len(spec.v)) ELSE spec.v,
                        d |-> IF signed /\ spec.v[1] = "-" THEN "DESCENDING"
                              ELSE "ASCENDING" ]
            /\ spec.t = "tuple" =>
                /\ last.exc = "none"
                /\ Result.sort_expressions[1] = spec

\* sort("+-a") returned: the key is the field "-a", ascending.
C12_Witness ==
    /\ last.op = "sort" /\ last.exc = "none"
    /\ last.args = <<PyStr(<<"+", "-", "a">>)>>
    /\ Result.sort_expressions[1] = PyTuple(<<"-", "a">>, "ASCENDING")

\* C16: sort(L) with a list L as the sole argument ends as sort(*L) on the
\* same query does: the same error or the same sort keys in the new query,
\* and the error of an empty sort call when L is empty.
C16_SortListUnpacked ==
    last.op = "sort" /\ Len(last.args) = 1 /\ last.args[1].t = "list" =>
        LET L == last.args[1].v
            unpacked == sort(World(<<Receiver>>, <<>>), 1, L)
        IN  /\ last.exc = unpacked.exc
            /\ L = <<>> => last.exc = "ValueError"
            /\ last.exc = "none" =>
                  /\ Result.sort_expressions = unpacked.h[unpacked.ret].sort_expressions
                  /\ \A key \in DOMAIN Result :
                        key # "sort_expressions" => Result[key] = Receiver[key]

\* sort(["a", "-b"]) returned on a query that had a sort key.
C16_Witness ==
    /\ last.op = "sort" /\ last.exc = "none"
    /\ last.args = <<PyList(<<PyStr(<<"a">>), PyStr(<<"-", "b">>)>>)>>
    /\ Len(Receiver.sort_expressions) = 1
    /\ Len(Result.sort_expressions) = 3

\* A negative int.
Negative(val) == val.t = "int" /\ val.v < 0

\* The call has an argument that fails validation.
BadInput(call) ==
    \/ call.op \in {"limit", "skip"} /\ Negative(call.args[1])
    \/ call.op = "sort" /\ \E i \in DOMAIN SortSpecs(call.args) :
          SortSpecs(call.args)[i].t \notin {"tuple", "str", "None"}
    \/ call.op \in {"find", "find_one"} /\ (Negative(call.kw.skip) \/ Negative(call.kw.limit))

\* C13: a transform with an argument that fails validation (a sort item that
\* is no pair, string or None; a negative skip or limit, given directly or
\* as a keyword argument of find) raises a validation error at that call: no
\* query is returned, the caller's objects stay as they were, and no call
\* goes out.
C13_ValidationAtCall ==
    [][BadInput(last') =>
        /\ last'.exc = "ValidationError"
        /\ last'.ret = 0
        /\ heap' = heap
        /\ calls' = <<>>]_vars

\* find(skip = 1, limit = -1) raised on a query derived from another.
C13_Witness ==
    /\ last.op = "find" /\ Negative(last.kw.limit)
    /\ last.exc = "ValidationError"
    /\ last.self > 1

\* C14: the constructed query, which has no explicit projection, has its
\* document model as projection model; every query the caller holds has a
\* projection model that is a model, not None; project(None) returns a
\* query projected on its document model, and project(M) one projected on M.
C14_ProjectionDefault ==
    /\ heap[1].projection_model = heap[1].document_model
    /\ \A q \in DOMAIN heap : heap[q].projection_model \in {"Doc", "Proj"}
    /\ Built /\ last.op = "project" =>
          Result.projection_model =
              IF last.args[1].t = "None" THEN Receiver.document_model
              ELSE last.args[1].v

\* project(None) returned on a query that was projected on Proj.
C14_Witness ==
    /\ Built /\ last.op = "project"
    /\ last.args[1].t = "None"
    /\ Receiver.projection_model = "Proj"
    /\ Result.projection_model = "Doc"

\* C15: find_one(*P, **K) ends as find(*P, **K) followed by one() does on
\* the same query: the same error, or a query equal field by field; so the
\* query it returns is single with limit_number = 1, whatever K holds for
\* `one` and `limit`.
C15_FindOneIsFindThenOne ==
    last.op = "find_one" =>
        LET found == find(World(<<Receiver>>, <<>>), 1, last.args, last.kw)
            chained == IF found.exc = "none" THEN one(found, found.ret, PyBool(TRUE))
                       ELSE found
        IN  /\ last.exc = chained.exc
            /\ last.exc = "none" =>
                  /\ Result = chained.h[chained.ret]
                  /\ Result.is_single
                  /\ Result.limit_number = 1

\* find_one(limit = MaxNum, one = False) returned a query.
C15_Witness ==
    /\ Built /\ last.op = "find_one"
    /\ last.kw.one = PyBool(FALSE)
    /\ last.kw.limit = PyInt(MaxNum)
    /\ Result.is_single
    /\ Result.limit_number = 1

\* The transform `op` with the given arguments, on `self` in world w.
Transform(op, w, self, args, kw) ==
    CASE op = "limit"       -> limit(w, self, args[1])
      [] op = "skip"        -> skip(w, self, args[1])
      [] op = "project"     -> project(w, self, args[1])
      [] op = "one"         -> one(w, self, args[1])
      [] op = "set_session" -> set_session(w, self, args[1])
      [] op = "sort"        -> sort(w, self, args)
      [] op = "find"        -> find(w, self, args, kw)
      [] op = "find_one"    -> find_one(w, self, args, kw)

\* What an execution of q sends: the parameters of find and find_one, of
\* which count sends the filter.
Sent(q) == _find_query_params(q)

\* C17: with the base and its variants built and executed in any order, no
\* step, transform or execution, on any query changes what another query or
\* the query itself sends; an execution sends what its query had to send
\* before the step; and a new variant sends what the same transform, on its
\* receiver alone with no other query around, makes it send.
C17_VariantsIndependent ==
    [][/\ \A q \in DOMAIN heap :
             q \in DOMAIN heap' /\ Sent(heap'[q]) = Sent(heap[q])
       /\ \A i \in DOMAIN calls' :
             \A sent \in {Sent(heap[calls'[i].self])} :
                 calls'[i].args =
                     IF calls'[i].op = "count_documents" THEN sent.filter ELSE sent
       /\ last'.op \in TransformOps /\ last'.exc = "none" =>
             \A alone \in {Transform(last'.op, World(<<heap[last'.self]>>, <<>>), 1,
                                     last'.args, last'.kw)} :
                 \A made \in {alone.h[alone.ret]} :
                     Sent(heap'[last'.ret]) = Sent(made)]_vars

\* With two variants built, which all send different parameters, the base
\* was executed and sent the parameters of a new query.
C17_Witness ==
    /\ Len(heap) = 3
    /\ Cardinality({Sent(heap[q]) : q \in DOMAIN heap}) = 3
    /\ last.op \in {"await", "motor_cursor"} /\ last.self = 1
    /\ Len(calls) = 1
    /\ calls[1].args = Sent(FindQuery("Doc"))

\* The fields a transform names.
Named(op) ==
    CASE op = "limit"       -> {"limit_number"}
      [] op = "skip"        -> {"skip_number"}
      [] op = "sort"        -> {"sort_expressions"}
      [] op = "project"     -> {"projection_model"}
      [] op = "set_session" -> {"session"}
      [] op = "one"         -> {"is_single", "limit_number"}
      [] op = "find"        -> {"find_expressions"}

\* C18: the query a transform returns has, in every field the transform
\* does not name, the value of the receiver: limit names limit_number, skip
\* skip_number, sort sort_expressions, project projection_model, set_session
\* session, one is_single and limit_number, and find without keyword
\* arguments find_expressions.
C18_Frame ==
    /\ Built
    /\ last.op \in {"limit", "skip", "sort", "project", "set_session", "one"}
          \/ (last.op = "find" /\ last.kw = NoKwargs)
    => \A key \in DOMAIN Result \ Named(last.op) : Result[key] = Receiver[key]

\* find(n > 1) without keyword arguments returned on a single query that
\* has a sort key, a session or a projection.
C18_Witness ==
    /\ Built /\ last.op = "find" /\ last.kw = NoKwargs
    /\ Receiver.is_single /\ Result.is_single
    /\ Result.limit_number = 1
    /\ \/ Len(Receiver.sort_expressions) > 0
       \/ Receiver.session # None
       \/ Receiver.projection_model = "Proj"
    /\ Len(Result.find_expressions) = Len(Receiver.find_expressions) + 1

\* A sort spec that validation accepts: None, a string, or a pair with a
\* direction.
GoodSortSpec(spec) ==
    \/ spec.t \in {"None", "str"}
    \/ spec.t = "tuple" /\ spec.d \in SortDirection

\* C19: in every query the caller holds, each entry of sort_expressions is
\* a (field, direction) pair with direction ascending or descending, none is
\* None, and skip_number and limit_number are not negative; sort() drops
\* the None items it is given and still succeeds: it adds one key for each
\* item that is not None, so sort("+b", None, (a, descending)) adds the two
\* keys (b, ascending), (a, descending) and sort(None) adds no key.
C19_StateInvariant ==
    /\ \A q \in DOMAIN heap :
          /\ \A i \in DOMAIN heap[q].sort_expressions :
                LET entry == heap[q].sort_expressions[i]
                IN  entry # None /\ entry.t = "tuple" /\ entry.d \in SortDirection
          /\ heap[q].skip_number >= 0
          /\ heap[q].limit_number >= 0
    /\ last.op = "sort" =>
          LET specs == SortSpecs(last.args)
          IN  /\ Len(specs) > 0 /\ (\A i \in DOMAIN specs : GoodSortSpec(specs[i]))
                  => /\ last.exc = "none"
                     /\ Len(Result.sort_expressions) =
                           Len(Receiver.sort_expressions)
                           + Cardinality({i \in DOMAIN specs : specs[i] # None})
              /\ last.args = <<PyStr(<<"+", "b">>), None, PyTuple(<<"a">>, "DESCENDING")>>
                  => Result.sort_expressions =
                        << PyTuple(<<"b">>, "ASCENDING"), PyTuple(<<"a">>, "DESCENDING") >>
                        \o Receiver.sort_expressions
              /\ last.args = <<None>>
                  => Result.sort_expressions = Receiver.sort_expressions

\* sort("+b", None, (a, descending)) returned on a query with a sort key.
C19_Witness ==
    /\ last.op = "sort" /\ last.exc = "none"
    /\ last.args = <<PyStr(<<"+", "b">>), None, PyTuple(<<"a">>, "DESCENDING")>>
    /\ Len(Receiver.sort_expressions) > 0
    /\ Len(Result.sort_expressions) = Len(Receiver.sort_expressions) + 2

\* C20: find() applies its keyword arguments in the order skip, limit,
\* sort, one, projection_model, session, each to the result of the one
\* before: the query it returns has the given skip; limit_number 1 when
\* `one` is given, with either flag, whatever `limit` is, else the given
\* limit; the given sort key before the receiver's; the given flag, the
\* given projection and the given session; and each field of the receiver
\* where the argument is absent.  So find(limit = n, one = False) is a many
\* query whose cursor yields at most one document.
C20_FindKwargsOrder ==
    Built /\ last.op = "find" =>
        LET kw == last.kw
            Given(key, field) == IF kw[key] # None THEN kw[key].v ELSE Receiver[field]
        IN  /\ Result.skip_number = Given("skip", "skip_number")
            /\ Result.limit_number =
                  IF kw.one # None THEN 1 ELSE Given("limit", "limit_number")
            /\ Result.is_single = Given("one", "is_single")
            /\ Result.projection_model = Given("projection_model", "projection_model")
            /\ Result.session = IF kw.session # None THEN kw.session ELSE Receiver.session
            /\ Len(Result.sort_expressions) =
                  Len(Receiver.sort_expressions) + IF kw.sort # None THEN 1 ELSE 0
            /\ kw.limit # None /\ kw.one = PyBool(FALSE) =>
                  /\ ~Result.is_single
                  /\ Sent(Result).limit = 1
                  /\ Len(motor_find(Sent(Result))) <= 1

\* find(limit = MaxNum, one = False) returned a many query with
\* limit_number 1, where more than one document matches.
C20_Witness ==
    /\ Built /\ last.op = "find"
    /\ last.kw.limit = PyInt(MaxNum) /\ last.kw.one = PyBool(FALSE)
    /\ ~Result.is_single
    /\ Result.limit_number = 1
    /\ Len(Matching(Result)) > 1
    /\ Len(motor_find(Sent(Result))) = 1

=============================================================================
